---- MODULE Spec2Model ----
(***************************************************************************)
(* Model of the asset-db bootstrap path: assetdb.New (the factory), the   *)
(* graph repository constructor neo4j.New, and the migration routines     *)
(* migrateDatabase / sqlMigrate / neoMigrate.                              *)
(*                                                                         *)
(* The repository holds two revisions of the factory file (part_000 and    *)
(* part_001) and two of the graph repository file (repository/neo4j/db.go  *)
(* and part_002).  The variable rev fixes which revision of each a         *)
(* behaviour runs; every combination is explored.                          *)
(*                                                                         *)
(* Connection strings are sequences of tokens, e.g.                        *)
(*   <<"bolt", "+ssc", "://", "user", ":", "pass", "@", "db.local", ":",   *)
(*     "7687", "/", "assets">>                                             *)
(* so that parsing, trimming and formatting are computed, not assumed.     *)
(***************************************************************************)
EXTENDS Integers, Sequences, FiniteSets, TLC

VARIABLES rev, calls, pc, argType, argDsn, dsn, result, err,
          long, mig, opens, closes, attempts, events, elapsed, handles,
          errWrap, dbs, conns, run, graph, closeLog

vars == <<rev, calls, pc, argType, argDsn, dsn, result, err,
          long, mig, opens, closes, attempts, events, elapsed, handles,
          errWrap, dbs, conns, run, graph, closeLog>>

---------------------------------------------------------------------------
(* Bounds of the model *)

\* number of Create calls one behaviour makes
MaxCalls == 2
\* rand.Intn(n) is explored over 0 .. min(MaxDraw, n-1)
MaxDraw == 1
\* the modelled clock stops counting here when the code sets no deadline
MaxWait == 16
\* the migration bundle of a relational dialect holds versions 1 .. MaxVersion
MaxVersion == 2
\* number of Close calls made on one handle
MaxCloses == 2

(* Program constants *)

RandRange == 1000
HandleBudget == 5
MigrationBudget == 15
VersionTLS12 == 771

Neo4j == "neo4j"
SQLite == "sqlite"
SQLiteMemory == "sqlite_memory"
Postgres == "postgres"

SqlTypes == {SQLite, SQLiteMemory, Postgres}

FactoryRevs == {"part_000", "part_001"}
RepoRevs == {"db.go", "part_002"}

NoErr == "nil"

---------------------------------------------------------------------------
(* strings and net/url *)

\* the elements of a sequence
Range(q) == {q[i] : i \in DOMAIN q}

IndexOf(s, t) ==
    IF \E i \in 1..Len(s) : s[i] = t
    THEN CHOOSE i \in 1..Len(s) : s[i] = t /\ \A j \in 1..(i-1) : s[j] # t
    ELSE 0

Before(s, i) == SubSeq(s, 1, i-1)

After(s, i) == SubSeq(s, i+1, Len(s))

Only(S) == CHOOSE x \in S : TRUE

RECURSIVE Expand(_)
\* the same string with every delimiter as a token of its own: "://" is
\* ":" "/" "/" and "//" is "/" "/"
Expand(s) ==
    IF s = <<>> THEN <<>>
    ELSE (CASE s[1] = "://" -> <<":", "/", "/">>
            [] s[1] = "//" -> <<"/", "/">>
            [] OTHER -> <<s[1]>>) \o Expand(Tail(s))

\* strings.TrimPrefix, for a prefix t of one character
TrimPrefix(s, t) ==
    Only({IF Len(e) > 0 /\ e[1] = t THEN Tail(e) ELSE s : e \in {Expand(s)}})

\* strings.TrimSuffix
TrimSuffix(s, t) ==
    IF Len(s) > 0 /\ s[Len(s)] = t THEN SubSeq(s, 1, Len(s)-1) ELSE s

\* strings.LastIndex
LastIndexOf(s, t) ==
    IF \E i \in 1..Len(s) : s[i] = t
    THEN CHOOSE i \in 1..Len(s) :
             s[i] = t /\ \A j \in (i+1)..Len(s) : s[j] # t
    ELSE 0

\* the first position of s that holds a token of T, 0 when there is none
FirstOf(s, T) ==
    IF \E i \in 1..Len(s) : s[i] \in T
    THEN CHOOSE i \in 1..Len(s) :
             s[i] \in T /\ \A j \in 1..(i-1) : s[j] \notin T
    ELSE 0

RECURSIVE Join(_)
\* the string a token sequence spells
Join(q) == IF q = <<>> THEN "" ELSE q[1] \o Join(Tail(q))

\* the tokens that stand for the delimiters of a URL
Delimiters == {":", "/", "?", "#", "@"}

\* the characters of a word, one by one
Chars(w) == {SubSeq(w, i, i) : i \in 1..Len(w)}

LowerLetters ==
    <<"a", "b", "c", "d", "e", "f", "g", "h", "i", "j", "k", "l", "m",
      "n", "o", "p", "q", "r", "s", "t", "u", "v", "w", "x", "y", "z">>

UpperLetters ==
    <<"A", "B", "C", "D", "E", "F", "G", "H", "I", "J", "K", "L", "M",
      "N", "O", "P", "Q", "R", "S", "T", "U", "V", "W", "X", "Y", "Z">>

Letters == Range(LowerLetters) \cup Range(UpperLetters)

Digits == {"0", "1", "2", "3", "4", "5", "6", "7", "8", "9"}

\* '0' <= c && c <= '9' for every character of the word
IsDigits(w) == Chars(w) \subseteq Digits

\* the word holds a character getScheme stops at: neither a letter nor a
\* digit, '+', '-' or '.'
NonSchemeWord(w) == ~(Chars(w) \subseteq (Letters \cup Digits \cup {"+", "-", "."}))

\* the word starts with a digit, '+', '-' or '.'
NonLetterStart(w) == Len(w) > 0 /\ SubSeq(w, 1, 1) \notin Letters

\* strings.ToLower of one character
LowerChar(c) ==
    IF c \in Range(UpperLetters)
    THEN LowerLetters[CHOOSE k \in DOMAIN UpperLetters : UpperLetters[k] = c]
    ELSE c

\* strings.ToLower of a word
ToLower(tok) == Join([i \in 1..Len(tok) |-> LowerChar(SubSeq(tok, i, i))])

\* net/url getScheme: the position of the ":" that ends the scheme; 0 when
\* the string has no scheme (no ":" before the first character a scheme
\* cannot hold, or a first character that is not a letter); -1 when the
\* string starts with ":" (missing protocol scheme)
SchemeEnd(s) ==
    LET i == FirstOf(s, {x \in Range(s) : x \in Delimiters \/ NonSchemeWord(x)})
    IN  IF i = 0 THEN 0
        ELSE IF s[i] # ":" THEN 0
        ELSE IF i = 1 THEN -1
        ELSE IF NonLetterStart(s[1]) THEN 0
        ELSE i

\* url.Parse: u, frag, _ := strings.Cut(rawURL, "#")
CutFragment(s) ==
    LET f == IndexOf(s, "#")
    IN  [s        |-> IF f > 0 THEN Before(s, f) ELSE s,
         Fragment |-> IF f > 0 THEN After(s, f) ELSE <<>>]

\* parse: getScheme, and the scheme lower-cased
CutScheme(a) ==
    LET c == SchemeEnd(a.s)
    IN  [missing  |-> c = -1,
         Scheme   |-> IF c > 0 THEN [i \in 1..(c-1) |-> ToLower(a.s[i])]
                      ELSE <<>>,
         rest     |-> IF c > 0 THEN After(a.s, c) ELSE a.s,
         Fragment |-> a.Fragment]

\* parse: rest, url.RawQuery, _ = strings.Cut(rest, "?")
CutQuery(b) ==
    LET q == IndexOf(b.rest, "?")
    IN  [missing  |-> b.missing,
         Scheme   |-> b.Scheme,
         rest     |-> IF q > 0 THEN Before(b.rest, q) ELSE b.rest,
         RawQuery |-> IF q > 0 THEN After(b.rest, q) ELSE <<>>,
         Fragment |-> b.Fragment]

\* parse: what does not start with "/" is opaque after a scheme, and without
\* one its first segment must hold no ":"; a leading "//" starts the
\* authority (without a scheme "///" does not)
FindAuthority(c) ==
    LET rooted  == Len(c.rest) > 0 /\ c.rest[1] = "/"
        slash   == IndexOf(c.rest, "/")
        segment == IF slash > 0 THEN Before(c.rest, slash) ELSE c.rest
        hasAuth == /\ Len(c.rest) > 1
                   /\ c.rest[1] = "/"
                   /\ c.rest[2] = "/"
                   /\ \/ c.Scheme # <<>>
                      \/ ~(Len(c.rest) > 2 /\ c.rest[3] = "/")
    IN  [missing  |-> c.missing,
         badColon |-> ~rooted /\ c.Scheme = <<>> /\ IndexOf(segment, ":") > 0,
         Scheme   |-> c.Scheme,
         Opaque   |-> IF ~rooted /\ c.Scheme # <<>> THEN c.rest ELSE <<>>,
         hasAuth  |-> hasAuth,
         rest     |-> IF hasAuth THEN SubSeq(c.rest, 3, Len(c.rest))
                      ELSE IF rooted \/ c.Scheme = <<>> THEN c.rest ELSE <<>>,
         RawQuery |-> c.RawQuery,
         Fragment |-> c.Fragment]

\* parse: the authority ends at the next "/", the path starts there
CutAuthority(d) ==
    LET p == IF d.hasAuth THEN IndexOf(d.rest, "/") ELSE 0
    IN  [missing   |-> d.missing,
         badColon  |-> d.badColon,
         Scheme    |-> d.Scheme,
         Opaque    |-> d.Opaque,
         authority |-> IF ~d.hasAuth THEN <<>>
                       ELSE IF p > 0 THEN Before(d.rest, p) ELSE d.rest,
         Path      |-> IF ~d.hasAuth THEN d.rest
                       ELSE IF p > 0 THEN SubSeq(d.rest, p, Len(d.rest))
                       ELSE <<>>,
         RawQuery  |-> d.RawQuery,
         Fragment  |-> d.Fragment]

\* the characters validUserinfo takes besides letters and digits
UserinfoPunct ==
    {"-", ".", "_", ":", "~", "!", "$", "&", "'", "(", ")", "*", "+", ",",
     ";", "=", "%", "@"}

\* validUserinfo: every character is a letter, a digit or one of the above
ValidUserinfo(info) ==
    \A i \in DOMAIN info :
        Chars(info[i]) \subseteq (Letters \cup Digits \cup UserinfoPunct)

\* the printable ASCII characters a host name must not hold unescaped
\* (shouldEscape in host mode), but for the backquote, which no string of
\* this module can hold; bytes outside ASCII pass
HostForbidden == {" ", "#", "/", "?", "@", "\\", "^", "{", "|", "}"}

\* unescape(host, encodeHost) finds no character it refuses
ValidHostChars(host) ==
    \A i \in DOMAIN host : Chars(host[i]) \cap HostForbidden = {}

\* parseAuthority: the user information stands before the last "@" and
\* must pass validUserinfo
ParseAuthority(e) ==
    LET at == LastIndexOf(e.authority, "@")
    IN  [missing  |-> e.missing,
         badColon |-> e.badColon,
         badUser  |-> at > 0 /\ ~ValidUserinfo(Before(e.authority, at)),
         Scheme   |-> e.Scheme,
         Opaque   |-> e.Opaque,
         HasUser  |-> at > 0,
         UserInfo |-> IF at > 0 THEN Before(e.authority, at) ELSE <<>>,
         Host     |-> IF at > 0 THEN After(e.authority, at) ELSE e.authority,
         Path     |-> e.Path,
         RawQuery |-> e.RawQuery,
         Fragment |-> e.Fragment]

\* validOptionalPort, of what follows the last ":" of host: nothing, or a
\* run of digits of any length and value
ValidOptionalPort(host) ==
    LET colon == LastIndexOf(host, ":")
    IN  \A i \in (colon + 1)..Len(host) : IsDigits(host[i])

\* the nil *url.URL that url.Parse returns next to an error
NoUrl ==
    [ok |-> FALSE, Scheme |-> <<>>, Opaque |-> <<>>, HasUser |-> FALSE,
     UserInfo |-> <<>>, Host |-> <<>>, Path |-> <<>>, RawQuery |-> <<>>,
     Fragment |-> <<>>]

\* parseHost: what follows the last ":" of the host must be digits, and
\* the host must hold no character that needs escaping
ParseHost(g) ==
    LET badPort == LastIndexOf(g.Host, ":") > 0 /\ ~ValidOptionalPort(g.Host)
        badHost == ~ValidHostChars(g.Host)
        ok      == /\ ~g.missing
                   /\ ~g.badColon
                   /\ ~badPort
                   /\ ~badHost
                   /\ ~g.badUser
    IN  IF ok
        THEN [ok       |-> TRUE,
              Scheme   |-> g.Scheme,
              Opaque   |-> g.Opaque,
              HasUser  |-> g.HasUser,
              UserInfo |-> g.UserInfo,
              Host     |-> g.Host,
              Path     |-> g.Path,
              RawQuery |-> g.RawQuery,
              Fragment |-> g.Fragment]
        ELSE NoUrl

\* url.Parse, step by step.  Tokens hold no percent-escapes ("%"), control
\* bytes or "[...]" host literals.
UrlParse(raw) ==
    Only({ParseHost(g) : g \in
         {ParseAuthority(e) : e \in
         {CutAuthority(d) : d \in
         {FindAuthority(c) : c \in
         {CutQuery(b) : b \in
         {CutScheme(a) : a \in
         {CutFragment(s) : s \in {Expand(raw)}}}}}}}})

\* u.User.Username(): the user information before its first ":"
Username(u) ==
    LET i == IndexOf(u.UserInfo, ":")
    IN  Join(IF i > 0 THEN Before(u.UserInfo, i) ELSE u.UserInfo)

\* u.User.Password(): the user information after its first ":"
Password(u) ==
    LET i == IndexOf(u.UserInfo, ":")
    IN  IF i > 0 THEN Join(After(u.UserInfo, i)) ELSE ""

\* u.Hostname(): splitHostPort cuts the host at its last ":" when what
\* follows is a valid port, and leaves it whole otherwise
Hostname(u) ==
    LET colon == LastIndexOf(u.Host, ":")
    IN  Join(IF colon > 0 /\ ValidOptionalPort(u.Host)
             THEN Before(u.Host, colon) ELSE u.Host)

NoAuth == [kind |-> "none", user |-> "", pass |-> ""]

BasicAuth(u, p) == [kind |-> "basic", user |-> u, pass |-> p]

\* auth := NoAuth(); if u.User != nil { auth = BasicAuth(...) }
AuthOf(u) == IF u.HasUser THEN BasicAuth(Username(u), Password(u)) ELSE NoAuth

\* dbname := strings.TrimPrefix(u.Path, "/")
DbNameOf(u) == TrimPrefix(u.Path, "/")

\* a nil *tls.Config
NilTls == [set |-> FALSE, InsecureSkipVerify |-> FALSE, ServerName |-> "",
           MinVersion |-> 0]

TlsConfig(skip, name, min) ==
    [set |-> TRUE, InsecureSkipVerify |-> skip, ServerName |-> name,
     MinVersion |-> min]

PlainSchemes == {<<"bolt">>, <<"neo4j">>}
VerifiedSchemes == {<<"bolt", "+s">>, <<"neo4j", "+s">>}
InsecureSchemes == {<<"bolt", "+ssc">>, <<"neo4j", "+ssc">>}
SupportedSchemes == PlainSchemes \cup VerifiedSchemes \cup InsecureSchemes

---------------------------------------------------------------------------
(* The graph driver collaborator (neo4j-go-driver) *)

UnixScheme == <<"bolt", "+unix">>

\* the schemes of a direct connection, which carry no routing context
DirectSchemes ==
    {<<"bolt">>, <<"bolt", "+s">>, <<"bolt", "+ssc">>, UnixScheme}

\* the error neo4jdb.NewDriverWithContext returns for its target, NoErr
\* when it builds a driver.  It parses the target, switches on the scheme
\* (the six network schemes and bolt+unix, whose host part must be empty;
\* any other scheme is not supported), and refuses a query on a direct
\* scheme: only a routing scheme takes a routing context.  The queries of
\* the descriptors here are plain key=value lists, which the routing
\* schemes take as they are, and the pool settings the code passes are
\* valid.  It opens no connection: that is VerifyConnectivity's work.
DriverReject(target) ==
    LET t == UrlParse(target)
    IN  IF ~t.ok THEN "parse"
        ELSE IF t.Scheme \notin SupportedSchemes \cup {UnixScheme}
        THEN "unsupported scheme"
        ELSE IF t.Scheme = UnixScheme /\ t.Host # <<>> THEN "unix host"
        ELSE IF t.Scheme \in DirectSchemes /\ t.RawQuery # <<>>
        THEN "routing context"
        ELSE NoErr

DriverAccepts(target) == DriverReject(target) = NoErr

NoDriver == [state |-> "none", target |-> <<>>, auth |-> NoAuth,
             tls |-> NilTls, dbname |-> <<>>]

\* What a constructed driver does on the wire.  The target's scheme alone
\* switches encryption on (+s, +ssc) or off (bolt, neo4j, bolt+unix) and
\* certificate verification off (+ssc).  For an encrypted connection the
\* driver takes a copy of the caller's TlsConfig, or a configuration with
\* MinVersion TLS 1.2 when the caller gave none, and then overwrites two
\* of its fields: InsecureSkipVerify with what the scheme says and
\* ServerName with the host name of the address it connects to.  A
\* minVersion of 0 leaves the version to the defaults of crypto/tls.
SecurityPolicy(d) ==
    LET t == UrlParse(d.target)
    IN  IF t.Scheme \notin (VerifiedSchemes \cup InsecureSchemes)
        THEN [encrypted |-> FALSE, skipVerify |-> FALSE, serverName |-> "",
              minVersion |-> 0]
        ELSE [encrypted  |-> TRUE,
              skipVerify |-> t.Scheme \in InsecureSchemes,
              serverName |-> Hostname(t),
              minVersion |-> IF d.tls.set THEN d.tls.MinVersion
                             ELSE VersionTLS12]

---------------------------------------------------------------------------
(* neo4j.New: the long-lived pass of the graph backend *)

\* repository/neo4j/db.go: the target handed to the driver
NeoNewTargetDbGo(d, u) ==
    IF u.Scheme \in InsecureSchemes
    THEN TrimSuffix(u.Scheme, "+ssc") \o <<"+s">> \o <<"://">> \o u.Host
    ELSE u.Scheme \o <<"://">> \o u.Host

\* repository/neo4j/db.go: cfg.TlsConfig as configFunc leaves it
NeoNewTlsDbGo(u) ==
    IF u.Scheme \in InsecureSchemes THEN TlsConfig(TRUE, "", 0) ELSE NilTls

\* part_002: originalDSN := dsn
NeoNewTargetPart002(d, u) == d

\* part_002: cfg.TlsConfig is nil for bolt and neo4j and untouched otherwise
NeoNewTlsPart002(u) == NilTls

NeoNewTarget(r, d, u) ==
    IF r = "db.go" THEN NeoNewTargetDbGo(d, u) ELSE NeoNewTargetPart002(d, u)

NeoNewTls(r, u) ==
    IF r = "db.go" THEN NeoNewTlsDbGo(u) ELSE NeoNewTlsPart002(u)

\* u, err := url.Parse(dsn); if err != nil { return nil, err }
NeoNewParseFailed(u) == ~u.ok

---------------------------------------------------------------------------
(* neoMigrate: the migration pass of the graph backend *)

\* part_001: bolt://host[?query]
NeoMigrateTargetPart001(d, u) ==
    LET base == IF u.RawQuery # <<>> THEN u.Host \o <<"?">> \o u.RawQuery
                ELSE u.Host
    IN  <<"bolt">> \o <<"://">> \o base

\* part_001: tlsConfig by scheme
NeoMigrateTlsPart001(u) ==
    IF u.Scheme \in InsecureSchemes
    THEN TlsConfig(TRUE, Hostname(u), VersionTLS12)
    ELSE IF u.Scheme \in VerifiedSchemes
    THEN TlsConfig(FALSE, Hostname(u), VersionTLS12)
    ELSE NilTls

\* part_000: originalDSN := dsn
NeoMigrateTargetPart000(d, u) == d

\* part_000: tlsConfig stays nil
NeoMigrateTlsPart000(u) == NilTls

NeoMigrateTarget(r, d, u) ==
    IF r = "part_001" THEN NeoMigrateTargetPart001(d, u)
    ELSE NeoMigrateTargetPart000(d, u)

NeoMigrateTls(r, u) ==
    IF r = "part_001" THEN NeoMigrateTlsPart001(u) ELSE NeoMigrateTlsPart000(u)

\* the default branch of neoMigrate's switch on u.Scheme
NeoMigrateSchemeUnsupported(u) == u.Scheme \notin SupportedSchemes

---------------------------------------------------------------------------
(* assetdb.New and migrateDatabase *)

\* rand.Intn(n), explored over its smallest values
RandIntn(n) == 0..(IF n - 1 < MaxDraw THEN n - 1 ELSE MaxDraw)

\* fmt.Sprintf("file:mem%d?mode=memory&cache=shared", n)
MemDSN(n) ==
    <<"file", ":", "mem", ToString(n), "?", "mode=memory&cache=shared">>

\* if dbtype == sqlrepo.SQLiteMemory { dsn = ... }
RewriteDSN(t, d, n) == IF t = SQLiteMemory THEN MemDSN(n) ELSE d

\* New with the error check after repository.New dropped
NewIgnoresRepositoryError(e) == "migrate"

\* db, err := repository.New(dbtype, dsn); if err != nil { return nil, err }
\* gives the position New goes to next
NewAfterRepositoryNew(e) == IF e # NoErr THEN "done" ELSE "migrate"

\* New with the error check after migrateDatabase dropped
NewIgnoresMigrateError(e) == NoErr

\* if err := migrateDatabase(dbtype, dsn); err != nil { return nil, err }
\* return db, nil : gives the error New returns
NewAfterMigrate(e) == e

\* the switch of migrateDatabase
MigrateRoutine(t) ==
    IF t \in SqlTypes THEN "sqlMigrate"
    ELSE IF t = Neo4j THEN "neoMigrate"
    ELSE "none"

\* defer func() { _ = sqlDb.Close() }()
SqlMigrateDeferredClose(m) == [m EXCEPT !.state = "closed"]

\* defer func() { _ = driver.Close(context.Background()) }()
NeoMigrateDeferredClose(m) == [m EXCEPT !.state = "closed"]

\* _ = driver.Close(context.Background()) // best-effort cleanup
NeoNewCleanup(d) == [d EXCEPT !.state = "closed"]

\* migrateDatabase with a namespace of its own for the in-memory backend
MigrateDatabaseFreshDsn(d) ==
    IF Len(d) > 2 /\ SubSeq(d, 1, 3) = <<"file", ":", "mem">>
    THEN MemDSN(RandRange) ELSE d

\* if err := migrateDatabase(dbtype, dsn): the descriptor the migration
\* pass is given
MigrateDatabaseDsn(d) == d

\* the phase prefix fmt.Errorf puts before the error returned at position p
\* ("" where the error is returned as it came)
ErrWrap(p, e) ==
    IF e = NoErr THEN ""
    ELSE IF p = "migrate" /\ e = "unsupported scheme" THEN "neoMigrate"
    ELSE IF p = "migrate" /\ e = "create driver"
    THEN "neoMigrate: create driver"
    ELSE IF p = "neoMigVerify" THEN "neoMigrate: verify connectivity"
    ELSE ""

---------------------------------------------------------------------------
(* The relational collaborators: SQLite shared-cache memory databases and
   the sql-migrate executor *)

\* the elements of a set of numbers in ascending order
SortedSeq(S) ==
    CHOOSE q \in [1..Cardinality(S) -> S] :
        \A i, j \in 1..Cardinality(S) : i < j => q[i] < q[j]

Reverse(q) == [i \in 1..Len(q) |-> q[Len(q) + 1 - i]]

\* "file:mem%d?mode=memory&cache=shared": one database per name, shared by
\* the connections of the process and dropped when the last one closes
ConnsAfterOpen(c, t, key) ==
    IF t = SQLiteMemory
    THEN [k \in DOMAIN c \cup {key} |->
             (IF k \in DOMAIN c THEN c[k] ELSE 0) + (IF k = key THEN 1 ELSE 0)]
    ELSE c

ConnsAfterClose(c, t, key) ==
    IF t = SQLiteMemory /\ key \in DOMAIN c
    THEN [k \in {x \in DOMAIN c : x # key \/ c[x] > 1} |->
             IF k = key THEN c[k] - 1 ELSE c[k]]
    ELSE c

\* the databases left once the connections are c
DbsAfterClose(d, c, t, key) ==
    IF t = SQLiteMemory /\ key \notin DOMAIN c
    THEN [k \in DOMAIN d \ {key} |-> d[k]]
    ELSE d

\* the applied-version ledger of a database, in the order of application
Ledger(key) == IF key \in DOMAIN dbs THEN dbs[key] ELSE <<>>

FullLedger == [i \in 1..MaxVersion |-> i]

\* migrate.Exec called with migrate.Down
SqlMigrateDirectionDown == "Down"

\* migrate.Exec(sqlDb, name, migrationsSource, migrate.Up)
SqlMigrateDirection == "Up"

\* the versions migrate.Exec plans to run: going up the versions missing
\* from the ledger, ascending; going down the applied ones, newest first
Planned(ledger, dir) ==
    IF dir = "Up"
    THEN SortedSeq({v \in 1..MaxVersion : v \notin Range(ledger)})
    ELSE Reverse(ledger)

\* migrate.Exec running the first k planned versions, each in a transaction
\* of its own that also writes the ledger
MigrateExec(ledger, dir, k) ==
    LET todo == SubSeq(Planned(ledger, dir), 1, k)
    IN  [ledger  |-> IF dir = "Up" THEN ledger \o todo
                     ELSE SubSeq(ledger, 1, Len(ledger) - k),
         applied |-> todo]

NoRun == [before |-> <<>>, applied |-> <<>>]

---------------------------------------------------------------------------
(* The graph schema: neomigrations.InitializeSchema *)

\* the schema objects the routine creates, in its order
SchemaObjects == <<"constraint", "index">>

EmptySchema == [o \in Range(SchemaObjects) |-> 0]

\* the database a driver talks to
GraphKey(m) == [host |-> UrlParse(m.target).Host, db |-> m.dbname]

SchemaOf(key) == IF key \in DOMAIN graph THEN graph[key] ELSE EmptySchema

\* CREATE ... without IF NOT EXISTS: the database refuses an object it has
CreatePlain(sch, o) ==
    IF sch[o] = 0 THEN [sch |-> [sch EXCEPT ![o] = 1], exists |-> FALSE]
    ELSE [sch |-> sch, exists |-> TRUE]

\* CREATE ... IF NOT EXISTS, one atomic statement of the database
CreateIfAbsent(sch, o) ==
    IF sch[o] = 0 THEN [sch |-> [sch EXCEPT ![o] = 1], exists |-> FALSE]
    ELSE [sch |-> sch, exists |-> FALSE]

RECURSIVE InitializeFrom(_, _, _)
\* the routine from its i-th object to its j-th, stopping at a statement
\* the database refuses
InitializeFrom(sch, i, j) ==
    IF i > j THEN [sch |-> sch, exists |-> FALSE, last |-> j]
    ELSE LET r == CreateIfAbsent(sch, SchemaObjects[i])
         IN  IF r.exists THEN [sch |-> sch, exists |-> TRUE, last |-> i - 1]
             ELSE InitializeFrom(r.sch, i + 1, j)

\* the graph databases once the schema of key is sch (a database with no
\* schema object is not recorded)
GraphAfter(key, sch) ==
    IF sch = EmptySchema /\ key \notin DOMAIN graph THEN graph
    ELSE [k \in DOMAIN graph \cup {key} |-> IF k = key THEN sch ELSE graph[k]]

---------------------------------------------------------------------------
(* Closing a handle *)

\* what is known of the resource behind a handle: the Close calls made on
\* the handle, the Close calls that reached the driver or pool, whether the
\* resource is still held, and how often it was released
Unclosed == [calls |-> 0, forwarded |-> 0, pool |-> "open", released |-> 0]

\* the driver's own Close, as the neo4j driver has it: under its lock it
\* closes the pool it still holds and forgets it, so a later call finds no
\* pool and does nothing
DriverClose(c) ==
    LET r == [c EXCEPT !.forwarded = @ + 1]
    IN  IF r.pool = "open"
        THEN [r EXCEPT !.pool = "nil", !.released = @ + 1]
        ELSE r

\* a Close that returns nil without calling the driver
NeoRepositoryCloseDropsDriver(c) == c

\* func (neo *neoRepository) Close() error { return neo.db.Close(ctx) }
\* the handle keeps no state of its own: every call goes to the driver
NeoRepositoryClose(c) == DriverClose(c)

\* the Close of a relational handle: the pool is released by the first
\* call and not again
SqlRepositoryClose(c) ==
    LET r == [c EXCEPT !.forwarded = @ + 1]
    IN  IF r.pool = "open"
        THEN [r EXCEPT !.pool = "nil", !.released = @ + 1]
        ELSE r

---------------------------------------------------------------------------
(* Inputs *)

GraphDSNs ==
    { <<"bolt", "://", "user", ":", "pass", "@", "db.local", ":", "7687",
        "/", "assets">>,
      <<"neo4j", "://", "graph.local", "/", "assets">>,
      <<"bolt", "+s", "://", "graph.local", ":", "7687", "/", "assets">>,
      <<"neo4j", "+s", "://", "graph.local", "/", "assets", "?", "x=1">>,
      <<"bolt", "+ssc", "://", "graph.local", ":", "7687", "/", "assets">>,
      <<"neo4j", "+ssc", "://", "user", ":", "pass", "@", "graph.local",
        "/", "assets">>,
      <<"ftp", "://", "bad-target">>,
      <<"bolt", "+unix", "://", "/", "var", "/", "run", "/",
        "neo4j.sock">> }

MalformedDSN == <<"://", "bad">>

\* descriptors url.Parse refuses for a character of the user information
\* or of the host
InvalidAuthorityDSNs ==
    { <<"bolt", "://", "user", ":", "p^ss", "@", "db.local", ":", "7687",
        "/", "assets">>,
      <<"neo4j", "+s", "://", "graph local", ":", "7687", "/", "assets">> }

\* the (dbtype, dsn) pairs a caller passes to New
Inputs ==
    ({Neo4j} \X (GraphDSNs \cup InvalidAuthorityDSNs
                            \cup {MalformedDSN, <<"assets.db">>}))
    \cup ({SQLite} \X {<<"assets.db">>, MalformedDSN})
    \cup ({SQLiteMemory} \X {<<":", "memory", ":">>, MalformedDSN})
    \cup ({Postgres} \X {<<"postgres", "://", "user", ":", "pass", "@",
                           "pg.local", "/", "assets">>, MalformedDSN})

\* a target reached over the network, where a connect can hang
Networked(t) == t \in {Neo4j, Postgres}

---------------------------------------------------------------------------
(* State *)

Init ==
    /\ rev \in [factory : FactoryRevs, repo : RepoRevs]
    /\ calls = 0
    /\ pc = "idle"
    /\ argType = ""
    /\ argDsn = <<>>
    /\ dsn = <<>>
    /\ result = "none"
    /\ err = NoErr
    /\ long = NoDriver
    /\ mig = NoDriver
    /\ opens = 0
    /\ closes = 0
    /\ attempts = 0
    /\ events = <<>>
    /\ elapsed = 0
    /\ handles = <<>>
    /\ errWrap = ""
    /\ dbs = <<>>
    /\ conns = <<>>
    /\ run = NoRun
    /\ graph = <<>>
    /\ closeLog = <<>>

\* New returns to its caller: (db, nil) or (nil, e)
Finish(e) ==
    /\ pc' = "done"
    /\ err' = e
    /\ result' = IF e = NoErr THEN "handle" ELSE "error"
    /\ handles' = IF e = NoErr
                  THEN Append(handles, [dbtype |-> argType, dsn |-> dsn])
                  ELSE handles
    /\ errWrap' = ErrWrap(pc, e)
    /\ closeLog' = IF e = NoErr
                   THEN Append(closeLog, Unclosed)
                   ELSE closeLog

\* repository.New has returned into New with error e (NoErr: with a handle)
RepoNewReturns(e) ==
    LET next == NewAfterRepositoryNew(e)
    IN  /\ pc' = next
        /\ IF next = "done"
           THEN /\ err' = e
                /\ result' = "error"
                /\ handles' = handles
                /\ errWrap' = ErrWrap(pc, e)
                /\ closeLog' = closeLog
           ELSE UNCHANGED <<err, result, handles, errWrap, closeLog>>

\* the deadline of the connectivity check New is waiting in; -1 for none
Budget(p) ==
    CASE p = "neoNewVerify" -> HandleBudget
      [] p = "sqlNewVerify" -> HandleBudget
      [] p = "neoMigVerify" -> MigrationBudget
      [] OTHER -> -1

Waiting == {"neoNewVerify", "sqlNewVerify", "neoMigVerify", "sqlOpen"}

\* the outcomes a connectivity check under a deadline can have now
VerifyOutcomes(p) ==
    IF elapsed >= Budget(p) THEN {"timeout"} ELSE {"ok", "connect"}

---------------------------------------------------------------------------
(* Actions *)

\* assetdb.New is called: the descriptor of the in-memory backend is
\* rewritten, then repository.New is entered
New(t, d) ==
    /\ pc \in {"idle", "done"}
    /\ calls < MaxCalls
    /\ calls' = calls + 1
    /\ argType' = t
    /\ argDsn' = d
    /\ \E n \in RandIntn(RandRange) : dsn' = RewriteDSN(t, d, n)
    /\ pc' = "repoNew"
    /\ result' = "none"
    /\ err' = NoErr
    /\ long' = NoDriver
    /\ mig' = NoDriver
    /\ opens' = 0
    /\ closes' = 0
    /\ attempts' = 0
    /\ events' = <<"Start">>
    /\ elapsed' = 0
    /\ errWrap' = ""
    /\ run' = NoRun
    /\ UNCHANGED <<rev, handles, dbs, conns, graph, closeLog>>

\* neo4j.New up to the call of VerifyConnectivity
NeoNew ==
    /\ pc = "repoNew"
    /\ argType = Neo4j
    /\ LET u      == UrlParse(dsn)
           target == NeoNewTarget(rev.repo, dsn, u)
       IN  IF NeoNewParseFailed(u)
           THEN /\ RepoNewReturns("parse")
                /\ UNCHANGED <<long, opens, attempts, events, elapsed>>
           ELSE IF ~DriverAccepts(target)
           THEN /\ RepoNewReturns(DriverReject(target))
                /\ events' = Append(events, "DescriptorResolved")
                /\ UNCHANGED <<long, opens, attempts, elapsed>>
           ELSE /\ long' = [state |-> "open", target |-> target,
                            auth |-> AuthOf(u), tls |-> NeoNewTls(rev.repo, u),
                            dbname |-> DbNameOf(u)]
                /\ opens' = opens + 1
                /\ attempts' = attempts + 1
                /\ events' = events \o <<"DescriptorResolved", "LongOpened">>
                /\ elapsed' = 0
                /\ pc' = "neoNewVerify"
                /\ UNCHANGED <<err, result, handles, errWrap, closeLog>>
    /\ UNCHANGED <<rev, calls, argType, argDsn, dsn, mig, closes, dbs, conns,
                   run, graph>>

\* neo4j.New: VerifyConnectivity under the 5 second context returns
NeoNewVerify(outcome) ==
    /\ pc = "neoNewVerify"
    /\ outcome \in VerifyOutcomes(pc)
    /\ IF outcome = "ok"
       THEN /\ RepoNewReturns(NoErr)
            /\ events' = Append(events, "ConnectionVerified")
            /\ UNCHANGED <<long, closes>>
       ELSE /\ long' = NeoNewCleanup(long)
            /\ closes' = closes + (IF long'.state = "closed" THEN 1 ELSE 0)
            /\ events' = Append(events, "LongVerifyFailed")
            /\ RepoNewReturns(outcome)
    /\ elapsed' = 0
    /\ UNCHANGED <<rev, calls, argType, argDsn, dsn, mig, opens, attempts,
                   dbs, conns, run, graph>>

\* sqlrepo.New up to its connectivity check
SqlNew(built) ==
    /\ pc = "repoNew"
    /\ argType \in SqlTypes
    /\ LET u == UrlParse(dsn)
       IN  IF ~u.ok
           THEN /\ RepoNewReturns("parse")
                /\ UNCHANGED <<long, opens, attempts, events, elapsed, conns>>
           ELSE IF ~built
           THEN /\ RepoNewReturns("open")
                /\ events' = Append(events, "DescriptorResolved")
                /\ UNCHANGED <<long, opens, attempts, elapsed, conns>>
           ELSE /\ long' = [NoDriver EXCEPT !.state = "open", !.target = dsn]
                /\ opens' = opens + 1
                /\ conns' = ConnsAfterOpen(conns, argType, dsn)
                /\ attempts' = attempts + 1
                /\ events' = events \o <<"DescriptorResolved", "LongOpened">>
                /\ elapsed' = 0
                /\ pc' = "sqlNewVerify"
                /\ UNCHANGED <<err, result, handles, errWrap, closeLog>>
    /\ UNCHANGED <<rev, calls, argType, argDsn, dsn, mig, closes, dbs, run,
                   graph>>

\* sqlrepo.New: the connectivity check of the pool returns
SqlNewVerify(outcome) ==
    /\ pc = "sqlNewVerify"
    /\ outcome \in VerifyOutcomes(pc)
    /\ IF outcome = "ok"
       THEN /\ RepoNewReturns(NoErr)
            /\ events' = Append(events, "ConnectionVerified")
            /\ UNCHANGED <<long, closes, conns, dbs>>
       ELSE /\ long' = [long EXCEPT !.state = "closed"]
            /\ closes' = closes + 1
            /\ conns' = ConnsAfterClose(conns, argType, long.target)
            /\ dbs' = DbsAfterClose(dbs, conns', argType, long.target)
            /\ events' = Append(events, "LongVerifyFailed")
            /\ RepoNewReturns(outcome)
    /\ elapsed' = 0
    /\ UNCHANGED <<rev, calls, argType, argDsn, dsn, mig, opens, attempts,
                   run, graph>>

\* migrateDatabase: the switch, and the routine it calls up to that
\* routine's first blocking call (gorm.Open, VerifyConnectivity)
MigrateDatabase ==
    /\ pc = "migrate"
    /\ LET routine == MigrateRoutine(argType)
           d       == MigrateDatabaseDsn(dsn)
           u       == UrlParse(d)
           target  == NeoMigrateTarget(rev.factory, d, u)
       IN  CASE routine = "sqlMigrate" ->
                 /\ attempts' = attempts + 1
                 /\ events' = Append(events, "MigrationStarted")
                 /\ elapsed' = 0
                 /\ pc' = "sqlOpen"
                 /\ UNCHANGED <<mig, opens, err, result, handles, errWrap, closeLog>>
             [] routine = "neoMigrate" ->
                 IF ~u.ok
                 THEN /\ Finish(NewAfterMigrate("parse"))
                      /\ events' = Append(events, "MigrationStarted")
                      /\ UNCHANGED <<mig, opens, attempts, elapsed>>
                 ELSE IF NeoMigrateSchemeUnsupported(u)
                 THEN /\ Finish(NewAfterMigrate("unsupported scheme"))
                      /\ events' = Append(events, "MigrationStarted")
                      /\ UNCHANGED <<mig, opens, attempts, elapsed>>
                 ELSE IF ~DriverAccepts(target)
                 THEN /\ Finish(NewAfterMigrate("create driver"))
                      /\ events' = Append(events, "MigrationStarted")
                      /\ UNCHANGED <<mig, opens, attempts, elapsed>>
                 ELSE /\ mig' = [state |-> "open", target |-> target,
                                 auth |-> AuthOf(u),
                                 tls |-> NeoMigrateTls(rev.factory, u),
                                 dbname |-> DbNameOf(u)]
                      /\ opens' = opens + 1
                      /\ attempts' = attempts + 1
                      /\ events' = events \o <<"MigrationStarted", "MigOpened">>
                      /\ elapsed' = 0
                      /\ pc' = "neoMigVerify"
                      /\ UNCHANGED <<err, result, handles, errWrap, closeLog>>
             [] OTHER ->
                 /\ Finish(NewAfterMigrate(NoErr))
                 /\ UNCHANGED <<mig, opens, attempts, events, elapsed>>
    /\ UNCHANGED <<rev, calls, argType, argDsn, dsn, long, closes, dbs, conns,
                   run, graph>>

\* sqlMigrate: gorm.Open returns, then sql.DB()
SqlMigrateOpen(outcome) ==
    /\ pc = "sqlOpen"
    /\ outcome \in {"ok", "open", "db"}
    /\ CASE outcome = "open" ->
              /\ Finish(NewAfterMigrate("open"))
              /\ events' = Append(events, "MigOpenFailed")
              /\ UNCHANGED <<mig, opens, conns>>
         [] outcome = "db" ->
              /\ mig' = [NoDriver EXCEPT !.state = "open",
                                          !.target = MigrateDatabaseDsn(dsn)]
              /\ opens' = opens + 1
              /\ conns' = ConnsAfterOpen(conns, argType, mig'.target)
              /\ Finish(NewAfterMigrate("db"))
              /\ events' = events \o <<"MigOpened", "MigDbFailed">>
         [] OTHER ->
              /\ mig' = [NoDriver EXCEPT !.state = "open",
                                          !.target = MigrateDatabaseDsn(dsn)]
              /\ opens' = opens + 1
              /\ conns' = ConnsAfterOpen(conns, argType, mig'.target)
              /\ events' = Append(events, "MigOpened")
              /\ pc' = "sqlExec"
              /\ UNCHANGED <<err, result, handles, errWrap, closeLog>>
    /\ elapsed' = 0
    /\ UNCHANGED <<rev, calls, argType, argDsn, dsn, long, closes, attempts,
                   dbs, run, graph>>

\* sqlMigrate: migrate.Exec returns, the deferred Close runs, New returns
SqlMigrateExec(ok) ==
    /\ pc = "sqlExec"
    /\ LET key    == mig.target
           before == Ledger(key)
           n      == Len(Planned(before, SqlMigrateDirection))
       IN  \E k \in IF ok THEN {n} ELSE 0..(IF n > 0 THEN n - 1 ELSE 0) :
               LET r      == MigrateExec(before, SqlMigrateDirection, k)
                   stored == IF r.ledger = <<>> THEN dbs
                             ELSE [x \in DOMAIN dbs \cup {key} |->
                                      IF x = key THEN r.ledger ELSE dbs[x]]
               IN  /\ mig' = SqlMigrateDeferredClose(mig)
                   /\ closes' = closes
                                   + (IF mig'.state = "closed" THEN 1 ELSE 0)
                   /\ conns' = IF mig'.state = "closed"
                               THEN ConnsAfterClose(conns, argType, key)
                               ELSE conns
                   /\ dbs' = DbsAfterClose(stored, conns', argType, key)
                   /\ run' = [before |-> before, applied |-> r.applied]
    /\ events' = events \o <<IF ok THEN "MigrationApplied"
                             ELSE "MigrationFailed", "MigReturned">>
    /\ Finish(NewAfterMigrate(IF ok THEN NoErr ELSE "migrate"))
    /\ UNCHANGED <<rev, calls, argType, argDsn, dsn, long, opens, attempts,
                   elapsed, graph>>

\* neoMigrate: VerifyConnectivity under the 15 second context returns
NeoMigrateVerify(outcome) ==
    /\ pc = "neoMigVerify"
    /\ outcome \in VerifyOutcomes(pc)
    /\ IF outcome = "ok"
       THEN /\ events' = Append(events, "MigVerified")
            /\ pc' = "neoInit"
            /\ run' = [before |-> SchemaOf(GraphKey(mig)), applied |-> <<>>]
            /\ UNCHANGED <<err, result, handles, errWrap, closeLog>>
       ELSE /\ events' = Append(events, "MigVerifyFailed")
            /\ Finish(NewAfterMigrate(outcome))
            /\ UNCHANGED run
    /\ elapsed' = 0
    /\ UNCHANGED <<rev, calls, argType, argDsn, dsn, long, mig, opens, closes,
                   attempts, dbs, conns, graph>>

\* neoMigrate: InitializeSchema returns, the deferred Close runs, New returns
NeoMigrateInit(ok) ==
    /\ pc = "neoInit"
    /\ LET key  == GraphKey(mig)
           done == Len(run.applied)
           n    == Len(SchemaObjects)
       IN  \E k \in IF ok THEN {n} ELSE done..(n - 1) :
               LET r == InitializeFrom(SchemaOf(key), done + 1, k)
                   e == IF r.exists THEN "already exists"
                        ELSE IF ok THEN NoErr ELSE "schema init"
               IN  /\ graph' = GraphAfter(key, r.sch)
                   /\ run' = [run EXCEPT
                                 !.applied = SubSeq(SchemaObjects, 1, r.last)]
                   /\ events' = events \o <<IF e = NoErr
                                            THEN "MigrationApplied"
                                            ELSE "MigrationFailed",
                                            "MigReturned">>
                   /\ Finish(NewAfterMigrate(e))
    /\ mig' = NeoMigrateDeferredClose(mig)
    /\ closes' = closes + (IF mig'.state = "closed" THEN 1 ELSE 0)
    /\ UNCHANGED <<rev, calls, argType, argDsn, dsn, long, opens, attempts,
                   elapsed, dbs, conns>>

\* one second passes while New waits on a networked target: a check under
\* a context deadline is cut off at its budget, gorm.Open has no deadline
Tick ==
    /\ pc \in Waiting
    /\ Networked(argType)
    /\ IF Budget(pc) >= 0 THEN elapsed < Budget(pc) ELSE elapsed < MaxWait
    /\ elapsed' = elapsed + 1
    /\ UNCHANGED <<rev, calls, pc, argType, argDsn, dsn, result, err, long,
                   mig, opens, closes, attempts, events, handles, errWrap,
                   dbs, conns, run, graph, closeLog>>

Next ==
    \/ \E in \in Inputs : New(in[1], in[2])
    \/ NeoNew
    \/ \E o \in {"ok", "connect", "timeout"} : NeoNewVerify(o)
    \/ \E b \in BOOLEAN : SqlNew(b)
    \/ \E o \in {"ok", "connect", "timeout"} : SqlNewVerify(o)
    \/ MigrateDatabase
    \/ \E o \in {"ok", "open", "db"} : SqlMigrateOpen(o)
    \/ \E b \in BOOLEAN : SqlMigrateExec(b)
    \/ \E o \in {"ok", "connect", "timeout"} : NeoMigrateVerify(o)
    \/ \E b \in BOOLEAN : NeoMigrateInit(b)
    \/ Tick

Spec == Init /\ [][Next]_vars

---------------------------------------------------------------------------
(* The graph schema initialization statement by statement, next to another
   process that initializes the same database *)

\* descriptors of one graph database
GraphInputs ==
    { <<"neo4j", "://", "graph.local", "/", "assets">>,
      <<"neo4j", "+s", "://", "graph.local", "/", "assets">> }

\* InitializeSchema runs its next statement
InitializeSchemaStep ==
    /\ pc = "neoInit"
    /\ Len(run.applied) < Len(SchemaObjects)
    /\ LET key == GraphKey(mig)
           i   == Len(run.applied) + 1
           r   == InitializeFrom(SchemaOf(key), i, i)
       IN  IF r.exists
           THEN /\ mig' = NeoMigrateDeferredClose(mig)
                /\ closes' = closes + (IF mig'.state = "closed" THEN 1 ELSE 0)
                /\ events' = events \o <<"MigrationFailed", "MigReturned">>
                /\ Finish(NewAfterMigrate("already exists"))
                /\ UNCHANGED <<graph, run>>
           ELSE /\ graph' = GraphAfter(key, r.sch)
                /\ run' = [run EXCEPT !.applied = SubSeq(SchemaObjects, 1, i)]
                /\ UNCHANGED <<pc, err, result, handles, errWrap, closeLog,
                               mig, closes, events>>
    /\ UNCHANGED <<rev, calls, argType, argDsn, dsn, long, opens, attempts,
                   elapsed, dbs, conns>>

\* a statement of InitializeSchema run by another process on the database
\* this call is initializing
OtherProcessCreate(o) ==
    /\ pc = "neoInit"
    /\ LET key == GraphKey(mig)
       IN  graph' = GraphAfter(key, CreateIfAbsent(SchemaOf(key), o).sch)
    /\ graph' # graph
    /\ UNCHANGED <<rev, calls, pc, argType, argDsn, dsn, result, err, long,
                   mig, opens, closes, attempts, events, elapsed, handles,
                   errWrap, dbs, conns, run, closeLog>>

NextGraph ==
    \/ \E d \in GraphInputs : New(Neo4j, d)
    \/ NeoNew
    \/ \E o \in {"ok", "connect", "timeout"} : NeoNewVerify(o)
    \/ MigrateDatabase
    \/ \E o \in {"ok", "connect", "timeout"} : NeoMigrateVerify(o)
    \/ \E b \in BOOLEAN : NeoMigrateInit(b)
    \/ InitializeSchemaStep
    \/ \E o \in Range(SchemaObjects) : OtherProcessCreate(o)
    \/ Tick

SpecGraph == Init /\ [][NextGraph]_vars

---------------------------------------------------------------------------
(* Close calls on the handles New returned *)

\* the backends whose handles are closed
CloseInputs ==
    { <<Neo4j, <<"neo4j", "://", "graph.local", "/", "assets">>>>,
      <<SQLiteMemory, <<":", "memory", ":">>>>,
      <<SQLite, <<"assets.db">>>> }

\* handle.Close() on the i-th handle returned
Close(i) ==
    /\ pc \in {"idle", "done"}
    /\ i \in DOMAIN handles
    /\ closeLog[i].calls < MaxCloses
    /\ LET h == handles[i]
           c == [closeLog[i] EXCEPT !.calls = @ + 1]
           d == IF h.dbtype = Neo4j THEN NeoRepositoryClose(c)
                ELSE SqlRepositoryClose(c)
       IN  /\ closeLog' = [closeLog EXCEPT ![i] = d]
           /\ conns' = IF d.released > closeLog[i].released
                       THEN ConnsAfterClose(conns, h.dbtype, h.dsn)
                       ELSE conns
           /\ dbs' = DbsAfterClose(dbs, conns', h.dbtype, h.dsn)
    /\ UNCHANGED <<rev, calls, pc, argType, argDsn, dsn, result, err, long,
                   mig, opens, closes, attempts, events, elapsed, handles,
                   errWrap, run, graph>>

NextClose ==
    \/ \E in \in CloseInputs : New(in[1], in[2])
    \/ NeoNew
    \/ \E o \in {"ok", "connect", "timeout"} : NeoNewVerify(o)
    \/ \E b \in BOOLEAN : SqlNew(b)
    \/ \E o \in {"ok", "connect", "timeout"} : SqlNewVerify(o)
    \/ MigrateDatabase
    \/ \E o \in {"ok", "open", "db"} : SqlMigrateOpen(o)
    \/ \E b \in BOOLEAN : SqlMigrateExec(b)
    \/ \E o \in {"ok", "connect", "timeout"} : NeoMigrateVerify(o)
    \/ \E b \in BOOLEAN : NeoMigrateInit(b)
    \/ Tick
    \/ \E i \in 1..MaxCalls : Close(i)

SpecClose == Init /\ [][NextClose]_vars

---------------------------------------------------------------------------
(* Properties *)

Happened(e) == IndexOf(events, e) > 0

HappenedBefore(a, b) == Happened(a) /\ Happened(b) /\ IndexOf(events, a) < IndexOf(events, b)

\* C1: New hands a handle to its caller only when the long-lived driver's
\* connectivity was verified and the migration completed successfully; every
\* other return carries an error and no handle.
C1_HandleOnlyWhenReady ==
    /\ Len(handles) <= calls
    /\ pc = "done" =>
         /\ result \in {"handle", "error"}
         /\ (result = "handle") <=> (err = NoErr)
         /\ result = "handle" =>
              /\ Happened("ConnectionVerified")
              /\ Happened("MigrationApplied")
              /\ long.state = "open"
              /\ Len(handles) > 0
              /\ handles[Len(handles)] = [dbtype |-> argType, dsn |-> dsn]

C1_Witness ==
    /\ pc = "done"
    /\ result = "handle"
    /\ argType = Neo4j
    /\ Happened("MigrationApplied")

\* C2: whenever New returns an error, every driver, pool or connection
\* opened during the call has been closed: opens equal closes.
C2_NoLeakOnError ==
    (pc = "done" /\ result = "error") => opens = closes

\* C3: in both graph passes, when the connectivity check fails after the
\* driver was created, that driver is closed before the failure is returned.
C3_DriverClosedOnVerifyFailure ==
    argType = Neo4j =>
        /\ Happened("LongVerifyFailed") => long.state = "closed"
        /\ Happened("MigVerifyFailed") => mig.state = "closed"

\* C4 as stated: the long-lived driver is never opened before the migration
\* has been applied and its connection released.
C4_MigrationBeforeHandle ==
    Happened("LongOpened") => HappenedBefore("MigReturned", "LongOpened")

\* C4 as the code has it: the long-lived handle is built and verified first
\* and the migration pass starts only afterwards; the migration runs on its
\* own connection, which is released by the time a handle is returned.
C4_HandleBeforeMigration ==
    /\ Happened("MigrationStarted") =>
           HappenedBefore("ConnectionVerified", "MigrationStarted")
    /\ mig.state # "none" => HappenedBefore("ConnectionVerified", "MigOpened")
    /\ result = "handle" =>
           /\ HappenedBefore("Start", "DescriptorResolved")
           /\ HappenedBefore("DescriptorResolved", "LongOpened")
           /\ HappenedBefore("LongOpened", "ConnectionVerified")
           /\ HappenedBefore("MigOpened", "MigrationApplied")
           /\ HappenedBefore("MigrationApplied", "MigReturned")
           /\ mig.state = "closed"
           /\ long.state = "open"
           /\ opens = 2
           /\ closes = 1

C4_Witness ==
    /\ pc = "done"
    /\ result = "handle"
    /\ mig.state = "closed"
    /\ HappenedBefore("ConnectionVerified", "MigrationStarted")

\* C5: a graph descriptor with a scheme outside the six supported ones fails
\* with an unsupported-scheme error, with no driver constructed and no
\* connectivity check started in either pass.
C5_UnsupportedSchemeNoAttempt ==
    (/\ argType = Neo4j
     /\ UrlParse(argDsn).ok
     /\ UrlParse(argDsn).Scheme # <<>>
     /\ UrlParse(argDsn).Scheme \notin SupportedSchemes) =>
        /\ opens = 0
        /\ attempts = 0
        /\ pc = "done" => (result = "error" /\ err = "unsupported scheme")

\* the table of section 4.1 read on a driver d built for descriptor u
MatchesTable(d, u) ==
    LET p == SecurityPolicy(d)
    IN  /\ u.Scheme \in PlainSchemes => ~p.encrypted
        /\ u.Scheme \in VerifiedSchemes =>
               /\ p.encrypted
               /\ ~p.skipVerify
               /\ p.serverName = Hostname(u)
               /\ p.minVersion >= VersionTLS12
        /\ u.Scheme \in InsecureSchemes =>
               /\ p.encrypted
               /\ p.skipVerify
               /\ p.serverName = Hostname(u)

\* C6: for every supported graph scheme the security policy applied to a
\* driver matches the table: plaintext for bolt and neo4j, verified TLS for
\* +s, TLS without certificate verification and with the server name set to
\* the descriptor's host name for +ssc.
C6_PolicyMatchesTable ==
    argType = Neo4j =>
        /\ long.state # "none" => MatchesTable(long, UrlParse(dsn))
        /\ mig.state # "none" => MatchesTable(mig, UrlParse(dsn))

\* C7: two handles of the in-memory backend never share a namespace.
C7_DistinctNamespaces ==
    \A i, j \in DOMAIN handles :
        (i # j /\ handles[i].dbtype = SQLiteMemory
               /\ handles[j].dbtype = SQLiteMemory) =>
            handles[i].dsn # handles[j].dsn

\* C8: no connectivity check waits longer than its budget, 5 seconds in the
\* long-lived pass and 15 seconds in the migration pass.
C8_ChecksBounded ==
    /\ pc \in {"neoNewVerify", "sqlNewVerify"} => elapsed <= HandleBudget
    /\ pc \in {"neoMigVerify", "sqlOpen"} => elapsed <= MigrationBudget

Malformed(d) == ~UrlParse(d).ok

\* no driver, pool or connection exists for the call, none was attempted,
\* and no database or namespace goes by the descriptor d
Untouched(d) ==
    /\ opens = 0
    /\ attempts = 0
    /\ long.state = "none"
    /\ mig.state = "none"
    /\ d \notin DOMAIN dbs
    /\ d \notin DOMAIN conns

C10_MigrationConnReleased ==
    (argType \in SqlTypes /\ pc = "done" /\ mig.state # "none") =>
        mig.state = "closed"

\* the scheme without its +s / +ssc suffix
SchemeFamily(sch) == IF Len(sch) > 0 THEN sch[1] ELSE ""

\* C15: the long-lived pass and the migration pass of one call derive the
\* same connection parameters from the descriptor: the same decision on the
\* scheme, the same security policy, the same target address (scheme family,
\* host, query), the same credentials and the same database name.
C15_PassesAgree ==
    argType = Neo4j =>
        /\ Happened("LongOpened") => err # "unsupported scheme"
        /\ (long.state # "none" /\ mig.state # "none") =>
               LET a == UrlParse(long.target)
                   b == UrlParse(mig.target)
               IN  /\ SecurityPolicy(long) = SecurityPolicy(mig)
                   /\ SchemeFamily(a.Scheme) = SchemeFamily(b.Scheme)
                   /\ a.Host = b.Host
                   /\ a.RawQuery = b.RawQuery
                   /\ long.auth = mig.auth
                   /\ long.dbname = mig.dbname

---------------------------------------------------------------------------
(* C14 *)

\* the number of times event e happened in the current call
Count(e) == Cardinality({i \in DOMAIN events : events[i] = e})

OncePerPass ==
    {"LongOpened", "ConnectionVerified", "LongVerifyFailed",
     "MigrationStarted", "MigOpened", "MigVerified", "MigVerifyFailed",
     "MigrationApplied", "MigrationFailed"}

\* C14: no step is retried, so driver construction, the connectivity check
\* and the migration run each happen at most once per pass, and a call that
\* ends with an error returns it wrapped with the phase at which it occurred.
C14_NoRetryAndWrapped ==
    /\ \A e \in OncePerPass : Count(e) <= 1
    /\ Count("ConnectionVerified") + Count("LongVerifyFailed") <= 1
    /\ Count("MigVerified") + Count("MigVerifyFailed") <= 1
    /\ Count("MigrationApplied") + Count("MigrationFailed") <= 1
    /\ (pc = "done" /\ result = "error") => errWrap # ""

---------------------------------------------------------------------------
(* C11 *)

Ascending(q) == \A i, j \in DOMAIN q : i < j => q[i] < q[j]

\* C11: relational migrations are applied strictly ascending and forward
\* only: a run appends the versions it applied to the ledger it found and
\* never removes one; a successful run leaves every version applied; a run
\* that finds every version applied applies none and leaves the ledger as
\* it was.
C11_MigrationsAscendingIdempotent ==
    /\ \A key \in DOMAIN dbs : Ascending(dbs[key])
    /\ (argType \in SqlTypes /\ Happened("MigReturned")) =>
           /\ Ascending(run.applied)
           /\ Ledger(mig.target) = run.before \o run.applied
           /\ Happened("MigrationApplied") => Ledger(mig.target) = FullLedger
           /\ run.before = FullLedger =>
                  /\ run.applied = <<>>
                  /\ Ledger(mig.target) = run.before

\* a second run on a database the first run migrated
C11_Witness ==
    /\ argType = SQLite
    /\ calls = 2
    /\ pc = "done"
    /\ result = "handle"
    /\ run.before = FullLedger
    /\ run.applied = <<>>
    /\ Ledger(mig.target) = FullLedger

---------------------------------------------------------------------------
(* C16 *)

InUse(key) == key \in DOMAIN conns /\ conns[key] >= 1

\* C16: for the in-memory backend the migration pass runs on the rewritten
\* namespace of the handle, and while the migration runs and once it has
\* been applied the pool of the handle holds a connection to that
\* namespace, so the handle New returns sees every version applied.
C16_MemoryNamespaceKept ==
    argType = SQLiteMemory =>
        /\ pc \in {"migrate", "sqlOpen", "sqlExec"} =>
               /\ long.state = "open"
               /\ long.target = dsn
               /\ dsn # argDsn
               /\ InUse(dsn)
        /\ pc = "sqlExec" => mig.target = long.target
        /\ (Happened("MigrationApplied")
             /\ closeLog[Len(closeLog)].calls = 0) =>
               /\ result = "handle"
               /\ mig.target = long.target
               /\ long.state = "open"
               /\ InUse(long.target)
               /\ Ledger(long.target) = FullLedger

\* New has returned an in-memory handle whose migration ran
C16_Witness ==
    /\ argType = SQLiteMemory
    /\ pc = "done"
    /\ result = "handle"
    /\ Happened("MigrationApplied")
    /\ mig.state = "closed"
    /\ InUse(dsn)

---------------------------------------------------------------------------
(* C12 *)

FullSchema == [o \in Range(SchemaObjects) |-> 1]

\* C12: however often the graph schema initialization runs, and whatever
\* another process initializing the same database does in between, no
\* schema object exists twice, no run fails because an object already
\* exists, and a run that succeeds leaves exactly the full object set.
C12_SchemaConverges ==
    /\ \A key \in DOMAIN graph :
           \A o \in Range(SchemaObjects) : graph[key][o] <= 1
    /\ err # "already exists"
    /\ (argType = Neo4j /\ Happened("MigrationApplied")) =>
           SchemaOf(GraphKey(mig)) = FullSchema

\* a run that found the whole schema in place, after an earlier call or
\* another process created it, and succeeded
C12_Witness ==
    /\ argType = Neo4j
    /\ pc = "done"
    /\ result = "handle"
    /\ Happened("MigrationApplied")
    /\ run.before = FullSchema
    /\ SchemaOf(GraphKey(mig)) = FullSchema

---------------------------------------------------------------------------
(* C13 *)

====
